---- MODULE Spec2Model ----
(***************************************************************************)
(* The build pipeline of src/src/build.ts (the `build` function of the     *)
(* Nuxt builder for Vercel), as a state machine.  One run of build is one  *)
(* behaviour: pc is the position in the function body, every await / call  *)
(* that can throw is one action, and an exception ends the run in          *)
(* pc = "failed".  External collaborators (the installer, the framework    *)
(* CLI, glob, the file system) answer nondeterministically.                *)
(***************************************************************************)
EXTENDS Integers, Sequences, FiniteSets, TLC

VARIABLES
    pc,            \* position in build()
    opts,          \* the argument of build(): entrypoint, config, package.json of files
    env,           \* process.env: whether NPM_AUTH_TOKEN is set
    cwd,           \* process.cwd()
    disk,          \* the file system: per directory, package.json and .npmrc
    log,           \* startStep calls and external commands, in order
    pkg,           \* the in-memory manifest (let pkg)
    locals,        \* other local constants of build()
    files,         \* the file sets globbed by the collect stage
    launcherFiles, \* the file set of the function package
    lambdas,       \* const lambdas
    warned,        \* consola.warn was called
    error,         \* the exception build() rejected with
    result         \* the value build() resolved with

vars == <<pc, opts, env, cwd, disk, log, pkg, locals, files, launcherFiles,
          lambdas, warned, error, result>>

----------------------------------------------------------------------------
(* Bounds of the model *)

\* largest number of files a single glob of the static directory returns
MaxStaticFiles == 2
\* largest major version of the resolved @nuxt/core package
MaxMajor == 3

----------------------------------------------------------------------------
(* Values *)

NoValue == "<undefined>"
NoError == "<none>"

\* build() has not resolved: no output, no routes
NoResult == [returned |-> FALSE, output |-> [k \in {} |-> "none"], routes |-> <<>>]

\* Directories.  InitialDir is the working directory build() is called in.
WorkPath == "/work"
InitialDir == "/cwd0"

\* Entrypoints given by the platform: two well-formed, one empty, one absolute.
Entrypoints == {"nuxt.config.js", "apps/app/nuxt.config.js", "", "/nuxt.config.js"}

\* path.dirname(entrypoint) on the entrypoints above
Dirname(e) ==
    CASE e = "apps/app/nuxt.config.js" -> "apps/app"
      [] e = "/nuxt.config.js" -> "/"
      [] OTHER -> "."

\* path.join(workPath, entrypointDir)
EntrypointPath(e) ==
    IF Dirname(e) = "." THEN WorkPath
    ELSE IF Dirname(e) = "/" THEN WorkPath \o "/"
    ELSE WorkPath \o "/" \o Dirname(e)

Dirs == {InitialDir, WorkPath, WorkPath \o "/apps/app"}

\* path.join(entrypointPath, 'node_modules')
ModulesPath(e) == EntrypointPath(e) \o "/node_modules"

\* path.join(path.resolve(entrypointPath, '.vercel_cache'), 'yarn')
YarnCachePath(e) == EntrypointPath(e) \o "/.vercel_cache/yarn"

\* Manifests (package.json contents) a project can have.
Manifests ==
    { [ state |-> "ok", scripts |-> s, dependencies |-> d.deps, devDependencies |-> d.dev ] :
        s \in {{}, {"now-build"}},
        d \in { [deps |-> {"nuxt", "lodash"}, dev |-> {"@nuxt/typescript-build", "eslint"}],
                [deps |-> {"nuxt-edge"}, dev |-> {"jest"}] } }

\* package.json is not in the directory, or is not JSON
NoFile == [ state |-> "absent", scripts |-> {}, dependencies |-> {}, devDependencies |-> {} ]
Unparsable == [ state |-> "unparsable", scripts |-> {}, dependencies |-> {}, devDependencies |-> {} ]

\* The names of the startStep calls, in the order of the source text.
StepNames == << "Prepare build", "Install devDependencies", "Pre build",
                "Nuxt build", "Install dependencies", "Collect artifacts" >>

\* Resolved versions of @nuxt/core: major.minor.patch
Versions == { <<2, 3, 0>>, <<2, 4, 0>>, <<3, 0, 0>> } \cup { <<ma, 1, 0>> : ma \in 3..MaxMajor }

\* semver gte / gt on plain major.minor.patch versions
SemverGt(a, b) ==
    \/ a[1] > b[1]
    \/ a[1] = b[1] /\ a[2] > b[2]
    \/ a[1] = b[1] /\ a[2] = b[2] /\ a[3] > b[3]

SemverGte(a, b) == a = b \/ SemverGt(a, b)

MinNuxtVersion == <<2, 4, 0>>
TestedNuxtCeiling == <<3, 0, 0>>

----------------------------------------------------------------------------
(* File sets: functions from logical path to the class of the file *)

EmptyFiles == [k \in {} |-> "none"]

\* { ...a, ...b }: the entries of b replace those of a
Spread(a, b) ==
    [k \in DOMAIN a \cup DOMAIN b |-> IF k \in DOMAIN b THEN b[k] ELSE a[k]]

\* the file set with keys ks, all of class c
FilesOf(ks, c) == [k \in ks |-> c]

\* path.join(prefix, relativePath) for the prefixes build() passes
TrailingSlashPrefixes == {"_nuxt/", "assets/"}

JoinPath(prefix, rel) ==
    IF prefix = "./" THEN rel
    ELSE IF prefix \in TrailingSlashPrefixes THEN prefix \o rel
    ELSE prefix \o "/" \o rel

\* globAndPrefix(pattern, dir, prefix) on a directory listing found
GlobAndPrefix(found, prefix, c) ==
    FilesOf({JoinPath(prefix, f) : f \in found}, c)

Range(s) == { s[i] : i \in DOMAIN s }

\* Files a project can keep in its static directory, in glob's listing order
StaticUniverse == << "_nuxt/app.js", "favicon.ico", "index" >>

\* glob('**', staticDir): a listing of at most MaxStaticFiles files
StaticListings ==
    { SelectSeq(StaticUniverse, LAMBDA f : f \in S) :
        S \in { T \in SUBSET Range(StaticUniverse) : Cardinality(T) <= MaxStaticFiles } }

\* listings of <buildDir>/dist/client after a framework build
ClientDistListings == { {"app.js"}, {"app.js", "pages/index.js"} }

\* listing of <buildDir>/dist/server after a framework build
ServerDistListing == {"server.js"}

\* listings of dist/ matching '**/*.*' after a static generation
GeneratedListings == { {"index.html"}, {"index.html", "favicon.ico"} }

\* listing of node_modules_prod after the production install
NodeModulesListing == {"@nuxt/core/package.json"}

\* files tsc emits for a nuxt.config.ts project
CompiledTypescriptListings ==
    { {"nuxt.config.js", "modules/module.js"},
      {"nuxt.config.js", ".nuxt/dist/server/server.js",
       "node_modules/@nuxt/core/package.json"} }

\* files that exist in the entry directory, by the pattern that finds them
WorkspaceGlob(pattern) ==
    CASE pattern = "package.json" -> {"package.json"}
      [] pattern = "secrets.json" -> {"secrets.json"}
      [] pattern = "server-middleware/api.js" -> {"server-middleware/api.js"}
      [] pattern = "nuxt.config.js" -> {"nuxt.config.js"}
      [] OTHER -> {}

----------------------------------------------------------------------------
(* The argument of build() and the framework configuration *)

Undefined == [kind |-> "undefined"]
Str(v) == [kind |-> "string", value |-> v]
Arr(v) == [kind |-> "array", items |-> v]

Configs ==
    { [ generateStaticRoutes |-> g, buildFiles |-> x.b,
        includeFiles |-> x.i, serverFiles |-> x.s ] :
        g \in BOOLEAN,
        x \in { [b |-> Undefined, i |-> Undefined, s |-> Undefined],
                [b |-> Arr(<<"shared">>), i |-> Arr(<<"secrets.json", "missing.txt">>),
                 s |-> Arr(<<"server-middleware/api.js">>)] } }
    \cup { [ generateStaticRoutes |-> FALSE, buildFiles |-> Undefined,
             includeFiles |-> Str("nuxt.config.js"), serverFiles |-> Undefined ] }

\* nuxt.config.js as getNuxtConfig returns it: the options build() reads
NuxtConfigs ==
    { [ lambdaName |-> NoValue, publicPath |-> NoValue ],
      [ lambdaName |-> "api", publicPath |-> "/assets/" ] }

\* String.prototype.replace(/^\//, '') on the public paths above
StripLeadingSlash(p) ==
    CASE p = "/_nuxt/" -> "_nuxt/"
      [] p = "/assets/" -> "assets/"
      [] OTHER -> p

----------------------------------------------------------------------------
(* The log of startStep calls and external commands *)

entrypointPath == EntrypointPath(opts.entrypoint)
modulesPath == ModulesPath(opts.entrypoint)
yarnCachePath == YarnCachePath(opts.entrypoint)

\* a startStep call, with the files of the working directory at that time
StepEv(name) ==
    [ev |-> "step", name |-> name, mode |-> "", ok |-> TRUE,
     pkg |-> disk[cwd].pkg, npmrc |-> disk[cwd].npmrc, dir |-> cwd,
     modules |-> "", cache |-> "", spawnEnv |-> ""]

\* an external command run in directory d, which sees the files of d
CmdEv(name, mode, ok, d, modules, cache) ==
    [ev |-> "cmd", name |-> name, mode |-> mode, ok |-> ok,
     pkg |-> disk[d].pkg, npmrc |-> disk[d].npmrc, dir |-> d,
     modules |-> modules, cache |-> cache, spawnEnv |-> ""]

\* runNpmInstall(entrypointPath, [mode, --modules-folder, --cache-folder], { env })
InstallEv(mode, spawnEnv, ok, modules, cache) ==
    [CmdEv("yarn install", mode, ok, entrypointPath, modules, cache)
       EXCEPT !.spawnEnv = spawnEnv]

InitLocals ==
    [ nuxtConfigName |-> NoValue,
      needsTypescriptBuild |-> FALSE, usesTypescript |-> FALSE,
      compiledTypescriptFiles |-> EmptyFiles, nuxtDepSuffix |-> NoValue,
      lambdaName |-> NoValue, publicPath |-> NoValue,
      nuxtVersion |-> <<0, 0, 0>> ]

InitFiles ==
    [ staticFiles |-> <<>>, clientDistFiles |-> EmptyFiles,
      serverDistFiles |-> EmptyFiles, generatedPagesFiles |-> EmptyFiles,
      nodeModules |-> EmptyFiles ]

Init ==
    /\ pc = "start"
    /\ opts \in [entrypoint : Entrypoints, config : Configs,
                 manifest : Manifests \cup {NoFile, Unparsable}]
    /\ env \in [NPM_AUTH_TOKEN : BOOLEAN]
    /\ cwd = InitialDir
    /\ disk = [d \in Dirs |-> [pkg |-> NoFile, npmrc |-> FALSE]]
    /\ log = <<>>
    /\ pkg = NoFile
    /\ locals = InitLocals
    /\ files = InitFiles
    /\ launcherFiles = EmptyFiles
    /\ lambdas = EmptyFiles
    /\ warned = FALSE
    /\ error = NoError
    /\ result = NoResult

\* the framework distributions a manifest can declare
CoreDependencies == {"nuxt", "nuxt-edge"}

\* preparePkgForProd(pkg): only the core framework dependency is kept
PreparePkgForProd(m) ==
    [m EXCEPT !.dependencies = m.dependencies \cap CoreDependencies,
              !.devDependencies = {}]

\* the variant suffix preparePkgForProd returns
NuxtDepSuffix(m) == IF "nuxt-edge" \in m.dependencies THEN "-edge" ELSE ""

\* startStep(name)
startStep(name) == log' = Append(log, StepEv(name))

\* an exception leaves build(): the promise rejects with e
Throw(e) ==
    /\ pc' = "failed"
    /\ error' = e

----------------------------------------------------------------------------
(* Prepare build *)

\* validateEntrypoint: an empty or an absolute entrypoint is malformed
ValidEntrypoint(e) == e \notin {"", "/nuxt.config.js"}

\* a preparation that does not validate the entrypoint
PrepareUnvalidated ==
    /\ pc = "start"
    /\ startStep("Prepare build")
    /\ pc' = "download"
    /\ UNCHANGED <<opts, env, cwd, disk, pkg, locals, files, launcherFiles,
                   lambdas, warned, result, error>>

\* lines 37-40: startStep('Prepare build'); validateEntrypoint(entrypoint)
Prepare ==
    /\ pc = "start"
    /\ startStep("Prepare build")
    /\ IF ValidEntrypoint(opts.entrypoint)
         THEN pc' = "download" /\ UNCHANGED error
         ELSE Throw("InvalidEntrypoint")
    /\ UNCHANGED <<opts, env, cwd, disk, pkg, locals, files, launcherFiles,
                   lambdas, warned, result>>

\* line 64: await download(files, workPath, meta)
Download ==
    /\ pc = "download"
    /\ \/ /\ disk' = [disk EXCEPT ![entrypointPath].pkg = opts.manifest]
          /\ pc' = "chdirRoot"
          /\ UNCHANGED error
       \/ /\ Throw("download")
          /\ UNCHANGED disk
    /\ UNCHANGED <<opts, env, cwd, log, pkg, locals, files, launcherFiles,
                   lambdas, warned, result>>

\* line 67: process.chdir(rootPath)
ChdirRoot ==
    /\ pc = "chdirRoot"
    /\ cwd' = WorkPath
    /\ pc' = "copyBuildFiles"
    /\ UNCHANGED <<opts, env, disk, log, pkg, locals, files, launcherFiles,
                   lambdas, warned, error, result>>

\* lines 70-72: copyBuildFiles(config.buildFiles, rootPath, entrypointPath)
CopyBuildFiles ==
    /\ pc = "copyBuildFiles"
    /\ \/ pc' = "chdirEntry" /\ UNCHANGED error
       \/ opts.config.buildFiles.kind # "undefined" /\ Throw("copyBuildFiles")
    /\ UNCHANGED <<opts, env, cwd, disk, log, pkg, locals, files, launcherFiles,
                   lambdas, warned, result>>

\* ChdirEntry without the chdir: the working directory stays the root
ChdirEntrySkipped ==
    /\ pc = "chdirEntry"
    /\ pc' = "readPkg"
    /\ UNCHANGED <<opts, env, cwd, disk, log, pkg, locals, files, launcherFiles,
                   lambdas, warned, error, result>>

\* line 74: process.chdir(entrypointPath)
ChdirEntry ==
    /\ pc = "chdirEntry"
    /\ cwd' = entrypointPath
    /\ pc' = "readPkg"
    /\ UNCHANGED <<opts, env, disk, log, pkg, locals, files, launcherFiles,
                   lambdas, warned, error, result>>

\* ReadPackageJson with the read error caught and the run carried on
ReadPackageJsonSwallowing ==
    /\ pc = "readPkg"
    /\ pkg' = disk[cwd].pkg
    /\ pc' = "nodeVersion"
    /\ UNCHANGED <<opts, env, cwd, disk, log, locals, files, launcherFiles,
                   lambdas, warned, error, result>>

\* lines 78-83: pkg = await readJSON('package.json'), relative to the cwd
ReadPackageJson ==
    /\ pc = "readPkg"
    /\ IF disk[cwd].pkg.state = "ok"
         THEN pkg' = disk[cwd].pkg /\ pc' = "nodeVersion" /\ UNCHANGED error
         ELSE Throw("ManifestNotFound") /\ UNCHANGED pkg
    /\ UNCHANGED <<opts, env, cwd, disk, log, locals, files, launcherFiles,
                   lambdas, warned, result>>

\* line 90: usesTypescript
UsesTypescript(m) ==
    \/ "@nuxt/typescript-build" \in m.devDependencies
    \/ "@nuxt/typescript" \in m.dependencies

\* lines 86-91: getNodeVersion, getSpawnOptions, usesTypescript,
\* needsTypescriptBuild = getNuxtConfigName(entrypointPath) === 'nuxt.config.ts'
DetectEnvironment ==
    /\ pc = "nodeVersion"
    /\ \/ /\ \E configName \in {"nuxt.config.js", "nuxt.config.ts"} :
               locals' = [locals EXCEPT
                            !.usesTypescript = UsesTypescript(pkg),
                            !.nuxtConfigName = configName,
                            !.needsTypescriptBuild = (configName = "nuxt.config.ts")]
          /\ pc' = "tsEnv"
          /\ UNCHANGED error
       \/ /\ Throw("getNodeVersion")
          /\ UNCHANGED locals
    /\ UNCHANGED <<opts, env, cwd, disk, log, pkg, files, launcherFiles,
                   lambdas, warned, result>>

\* lines 93-98: if (usesTypescript) await prepareTypescriptEnvironment(...)
PrepareTypescript ==
    /\ pc = "tsEnv"
    /\ \/ pc' = "npmrc" /\ UNCHANGED error
       \/ locals.usesTypescript /\ Throw("prepareTypescriptEnvironment")
    /\ UNCHANGED <<opts, env, cwd, disk, log, pkg, locals, files, launcherFiles,
                   lambdas, warned, result>>

\* lines 101-104: if (process.env.NPM_AUTH_TOKEN) await fs.writeFile('.npmrc', ...)
WriteNpmrc ==
    /\ pc = "npmrc"
    /\ \/ /\ disk' = IF env.NPM_AUTH_TOKEN
                       THEN [disk EXCEPT ![cwd].npmrc = TRUE]
                       ELSE disk
          /\ pc' = "yarnclean"
          /\ UNCHANGED error
       \/ /\ env.NPM_AUTH_TOKEN
          /\ Throw("writeFile .npmrc")
          /\ UNCHANGED disk
    /\ UNCHANGED <<opts, env, cwd, log, pkg, locals, files, launcherFiles,
                   lambdas, warned, result>>

\* lines 107-116: copy .yarnclean, mkdirp the cache directories
PrepareCache ==
    /\ pc = "yarnclean"
    /\ \/ pc' = "installDev" /\ UNCHANGED error
       \/ Throw("mkdirp")
    /\ UNCHANGED <<opts, env, cwd, disk, log, pkg, locals, files, launcherFiles,
                   lambdas, warned, result>>

----------------------------------------------------------------------------
(* Install devDependencies *)

\* StartInstallDev with the manifest pruned and rewritten before the dev install
StartInstallDevPruned ==
    /\ pc = "installDev"
    /\ startStep("Install devDependencies")
    /\ disk' = [disk EXCEPT ![cwd].pkg = PreparePkgForProd(pkg)]
    /\ \/ pc' = "devInstall" /\ UNCHANGED error
       \/ Throw("prepareNodeModules")
    /\ UNCHANGED <<opts, env, cwd, pkg, locals, files, launcherFiles,
                   lambdas, warned, result>>

\* lines 119-122: startStep('Install devDependencies'); prepareNodeModules
StartInstallDev ==
    /\ pc = "installDev"
    /\ startStep("Install devDependencies")
    /\ \/ pc' = "devInstall" /\ UNCHANGED error
       \/ Throw("prepareNodeModules")
    /\ UNCHANGED <<opts, env, cwd, disk, pkg, locals, files, launcherFiles,
                   lambdas, warned, result>>

\* InstallDevDependencies with a failed install caught and ignored
InstallDevDependenciesIgnoringFailure ==
    /\ pc = "devInstall"
    /\ \E ok \in BOOLEAN :
         log' = Append(log, InstallEv("--production=false", "NODE_ENV=development",
                                      ok, modulesPath, yarnCachePath))
    /\ pc' = "preBuild"
    /\ UNCHANGED <<opts, env, cwd, disk, pkg, locals, files, launcherFiles,
                   lambdas, warned, error, result>>

\* lines 125-132: await runNpmInstall(entrypointPath, [... '--production=false' ...])
InstallDevDependencies ==
    /\ pc = "devInstall"
    /\ \E ok \in BOOLEAN :
         /\ log' = Append(log, InstallEv("--production=false", "NODE_ENV=development",
                                         ok, modulesPath, yarnCachePath))
         /\ IF ok THEN pc' = "preBuild" /\ UNCHANGED error
                  ELSE Throw("runNpmInstall")
    /\ UNCHANGED <<opts, env, cwd, disk, pkg, locals, files, launcherFiles,
                   lambdas, warned, result>>

----------------------------------------------------------------------------
(* Pre build and Nuxt build *)

\* PreBuild running the script whether package.json declares it or not
PreBuildAlways ==
    /\ pc = "preBuild"
    /\ \E ok \in BOOLEAN :
         /\ log' = log \o << StepEv("Pre build"),
                             CmdEv("now-build", "", ok, entrypointPath, "", "") >>
         /\ IF ok THEN pc' = "nuxtBuild" /\ UNCHANGED error
                  ELSE Throw("runPackageJsonScript")
    /\ UNCHANGED <<opts, env, cwd, disk, pkg, locals, files, launcherFiles,
                   lambdas, warned, result>>

\* lines 135-138: the now-build script of package.json, when it is declared
PreBuild ==
    /\ pc = "preBuild"
    /\ IF "now-build" \in pkg.scripts
         THEN \E ok \in BOOLEAN :
                /\ log' = log \o << StepEv("Pre build"),
                                    CmdEv("now-build", "", ok, entrypointPath, "", "") >>
                /\ IF ok THEN pc' = "nuxtBuild" /\ UNCHANGED error
                         ELSE Throw("runPackageJsonScript")
         ELSE pc' = "nuxtBuild" /\ UNCHANGED <<log, error>>
    /\ UNCHANGED <<opts, env, cwd, disk, pkg, locals, files, launcherFiles,
                   lambdas, warned, result>>

\* StartNuxtBuild with the production install stage announced in its place
StartNuxtBuildMisordered ==
    /\ pc = "nuxtBuild"
    /\ startStep("Install dependencies")
    /\ pc' = "nuxtConfig"
    /\ UNCHANGED <<opts, env, cwd, disk, pkg, locals, files, launcherFiles,
                   lambdas, warned, error, result>>

\* StartNuxtBuild compiling whatever the configuration file is called
StartNuxtBuildAlwaysCompiling ==
    /\ pc = "nuxtBuild"
    /\ \E ok \in BOOLEAN :
         /\ log' = log \o << StepEv("Nuxt build"),
                             CmdEv("tsc", "", ok, entrypointPath, "", "") >>
         /\ IF ok
              THEN /\ \E found \in CompiledTypescriptListings :
                        locals' = [locals EXCEPT !.compiledTypescriptFiles =
                                                   FilesOf(found, "typescript")]
                   /\ pc' = "nuxtConfig"
                   /\ UNCHANGED error
              ELSE Throw("compileTypescriptBuildFiles") /\ UNCHANGED locals
    /\ UNCHANGED <<opts, env, cwd, disk, pkg, files, launcherFiles,
                   lambdas, warned, result>>

\* lines 141-147: startStep('Nuxt build'); compileTypescriptBuildFiles when
\* the configuration file is nuxt.config.ts
StartNuxtBuild ==
    /\ pc = "nuxtBuild"
    /\ IF locals.needsTypescriptBuild
         THEN \E ok \in BOOLEAN :
                /\ log' = log \o << StepEv("Nuxt build"),
                                    CmdEv("tsc", "", ok, entrypointPath, "", "") >>
                /\ IF ok
                     THEN /\ \E found \in CompiledTypescriptListings :
                               locals' = [locals EXCEPT !.compiledTypescriptFiles =
                                                          FilesOf(found, "typescript")]
                          /\ pc' = "nuxtConfig"
                          /\ UNCHANGED error
                     ELSE Throw("compileTypescriptBuildFiles") /\ UNCHANGED locals
         ELSE /\ startStep("Nuxt build")
              /\ pc' = "nuxtConfig"
              /\ UNCHANGED <<locals, error>>
    /\ UNCHANGED <<opts, env, cwd, disk, pkg, files, launcherFiles,
                   lambdas, warned, result>>

\* line 160: publicPath, without its leading slash
PublicPath(nuxtConfigFile) ==
    StripLeadingSlash(IF nuxtConfigFile.publicPath # NoValue
                        THEN nuxtConfigFile.publicPath
                        ELSE "/_nuxt/")

\* line 169: lambdaName
LambdaName(nuxtConfigFile) ==
    IF nuxtConfigFile.lambdaName # NoValue THEN nuxtConfigFile.lambdaName ELSE "index"

\* lines 150-175: getNuxtConfig and the options read from nuxt.config.js
ReadNuxtConfig ==
    /\ pc = "nuxtConfig"
    /\ \/ /\ \E nuxtConfigFile \in NuxtConfigs :
               locals' = [locals EXCEPT !.lambdaName = LambdaName(nuxtConfigFile),
                                        !.publicPath = PublicPath(nuxtConfigFile)]
          /\ pc' = "execBuild"
          /\ UNCHANGED error
       \/ /\ Throw("getNuxtConfig")
          /\ UNCHANGED locals
    /\ UNCHANGED <<opts, env, cwd, disk, log, pkg, files, launcherFiles,
                   lambdas, warned, result>>

\* lines 186-191: await exec('nuxt', ['build', '--standalone', ...])
NuxtBuild ==
    /\ pc = "execBuild"
    /\ \E ok \in BOOLEAN :
         /\ log' = Append(log, CmdEv("nuxt build", "--standalone", ok, cwd, "", ""))
         /\ IF ok THEN pc' = "execGenerate" /\ UNCHANGED error
                  ELSE Throw("nuxt build")
    /\ UNCHANGED <<opts, env, cwd, disk, pkg, locals, files, launcherFiles,
                   lambdas, warned, result>>

\* NuxtGenerate run whatever config.generateStaticRoutes is
NuxtGenerateAlways ==
    /\ pc = "execGenerate"
    /\ \E ok \in BOOLEAN :
         /\ log' = Append(log, CmdEv("nuxt generate", "--no-build", ok, cwd, "", ""))
         /\ IF ok THEN pc' = "installProd" /\ UNCHANGED error
                  ELSE Throw("nuxt generate")
    /\ UNCHANGED <<opts, env, cwd, disk, pkg, locals, files, launcherFiles,
                   lambdas, warned, result>>

\* lines 193-200: if (config.generateStaticRoutes) await exec('nuxt', ['generate', '--no-build', ...])
NuxtGenerate ==
    /\ pc = "execGenerate"
    /\ IF opts.config.generateStaticRoutes
         THEN \E ok \in BOOLEAN :
                /\ log' = Append(log, CmdEv("nuxt generate", "--no-build", ok, cwd, "", ""))
                /\ IF ok THEN pc' = "installProd" /\ UNCHANGED error
                         ELSE Throw("nuxt generate")
         ELSE pc' = "installProd" /\ UNCHANGED <<log, error>>
    /\ UNCHANGED <<opts, env, cwd, disk, pkg, locals, files, launcherFiles,
                   lambdas, warned, result>>

----------------------------------------------------------------------------
(* Install dependencies *)

\* lines 203-208: startStep('Install dependencies'); prepareNodeModules
StartInstallProd ==
    /\ pc = "installProd"
    /\ startStep("Install dependencies")
    /\ \/ pc' = "preparePkg" /\ UNCHANGED error
       \/ Throw("prepareNodeModules")
    /\ UNCHANGED <<opts, env, cwd, disk, pkg, locals, files, launcherFiles,
                   lambdas, warned, result>>

\* lines 211-212: preparePkgForProd(pkg); await fs.writeJSON('package.json', pkg)
PreparePkg ==
    /\ pc = "preparePkg"
    /\ pkg' = PreparePkgForProd(pkg)
    /\ locals' = [locals EXCEPT !.nuxtDepSuffix = NuxtDepSuffix(pkg)]
    /\ \/ /\ disk' = [disk EXCEPT ![cwd].pkg = pkg']
          /\ pc' = "prodInstall"
          /\ UNCHANGED error
       \/ /\ Throw("writeJSON package.json")
          /\ UNCHANGED disk
    /\ UNCHANGED <<opts, env, cwd, log, files, launcherFiles,
                   lambdas, warned, result>>

\* InstallDependencies installing into the node_modules_prod folder itself
InstallDependenciesOtherFolder ==
    /\ pc = "prodInstall"
    /\ \E ok \in BOOLEAN :
         /\ log' = Append(log, InstallEv("--production=true", "NPM_ONLY_PRODUCTION=true",
                                         ok, entrypointPath \o "/node_modules_prod",
                                         yarnCachePath))
         /\ IF ok THEN pc' = "validate" /\ UNCHANGED error
                  ELSE Throw("runNpmInstall")
    /\ UNCHANGED <<opts, env, cwd, disk, pkg, locals, files, launcherFiles,
                   lambdas, warned, result>>

\* lines 214-227: await runNpmInstall(entrypointPath, [... '--production=true' ...])
InstallDependencies ==
    /\ pc = "prodInstall"
    /\ \E ok \in BOOLEAN :
         /\ log' = Append(log, InstallEv("--production=true", "NPM_ONLY_PRODUCTION=true",
                                         ok, modulesPath, yarnCachePath))
         /\ IF ok THEN pc' = "validate" /\ UNCHANGED error
                  ELSE Throw("runNpmInstall")
    /\ UNCHANGED <<opts, env, cwd, disk, pkg, locals, files, launcherFiles,
                   lambdas, warned, result>>

\* VersionSupported with gt in place of gte
VersionSupportedStrict(v) == SemverGt(v, MinNuxtVersion)

\* line 231: gte(nuxtPkg.version, '2.4.0')
VersionSupported(v) == SemverGte(v, MinNuxtVersion)

\* a ceiling test that also takes 3.0.0 itself for untested
VersionUntestedInclusive(v) == SemverGte(v, TestedNuxtCeiling)

\* line 234: gt(nuxtPkg.version, '3.0.0')
VersionUntested(v) == SemverGt(v, TestedNuxtCeiling)

\* a version check that removes .npmrc before it throws
ValidateNuxtVersionCleaning ==
    /\ pc = "validate"
    /\ \/ /\ \E v \in Versions :
               /\ locals' = [locals EXCEPT !.nuxtVersion = v]
               /\ IF VersionSupported(v)
                    THEN /\ pc' = "cleanup"
                         /\ warned' = VersionUntested(v)
                         /\ UNCHANGED <<error, disk>>
                    ELSE /\ Throw("UnsupportedFrameworkVersion")
                         /\ disk' = [disk EXCEPT ![cwd].npmrc = FALSE]
                         /\ UNCHANGED warned
       \/ /\ Throw("FrameworkNotResolvable")
          /\ disk' = [disk EXCEPT ![cwd].npmrc = FALSE]
          /\ UNCHANGED <<locals, warned>>
    /\ UNCHANGED <<opts, env, cwd, log, pkg, files, launcherFiles,
                   lambdas, result>>

\* lines 230-236: resolve @nuxt/core, check its version
ValidateNuxtVersion ==
    /\ pc = "validate"
    /\ \/ /\ \E v \in Versions :
               /\ locals' = [locals EXCEPT !.nuxtVersion = v]
               /\ IF VersionSupported(v)
                    THEN /\ pc' = "cleanup"
                         /\ warned' = VersionUntested(v)
                         /\ UNCHANGED error
                    ELSE /\ Throw("UnsupportedFrameworkVersion")
                         /\ UNCHANGED warned
       \/ /\ Throw("FrameworkNotResolvable")
          /\ UNCHANGED <<locals, warned>>
    /\ UNCHANGED <<opts, env, cwd, disk, log, pkg, files, launcherFiles,
                   lambdas, result>>

\* CleanupNpmrc without the unlink
CleanupNpmrcSkipped ==
    /\ pc = "cleanup"
    /\ pc' = "collect"
    /\ UNCHANGED <<opts, env, cwd, disk, log, pkg, locals, files, launcherFiles,
                   lambdas, warned, error, result>>

\* lines 239-241: if (process.env.NPM_AUTH_TOKEN) await fs.unlink('.npmrc')
CleanupNpmrc ==
    /\ pc = "cleanup"
    /\ \/ /\ disk' = IF env.NPM_AUTH_TOKEN
                       THEN [disk EXCEPT ![cwd].npmrc = FALSE]
                       ELSE disk
          /\ pc' = "collect"
          /\ UNCHANGED error
       \/ /\ env.NPM_AUTH_TOKEN
          /\ Throw("unlink .npmrc")
          /\ UNCHANGED disk
    /\ UNCHANGED <<opts, env, cwd, log, pkg, locals, files, launcherFiles,
                   lambdas, warned, result>>

----------------------------------------------------------------------------
(* Collect artifacts *)

\* lines 244-273: startStep('Collect artifacts') and the five globs
CollectArtifacts ==
    /\ pc = "collect"
    /\ startStep("Collect artifacts")
    /\ \/ /\ \E static \in StaticListings, client \in ClientDistListings,
                generated \in GeneratedListings :
               files' =
                 [ staticFiles |-> static,
                   clientDistFiles |-> GlobAndPrefix(client, locals.publicPath, "client"),
                   serverDistFiles |->
                       GlobAndPrefix(ServerDistListing, ".nuxt/dist/server", "server"),
                   generatedPagesFiles |->
                       IF opts.config.generateStaticRoutes
                         THEN GlobAndPrefix(generated, "./", "generated")
                         ELSE EmptyFiles,
                   nodeModules |->
                       GlobAndPrefix(NodeModulesListing, "node_modules", "node_modules") ]
          /\ pc' = "launcher"
          /\ UNCHANGED error
       \/ /\ Throw("glob")
          /\ UNCHANGED files
    /\ UNCHANGED <<opts, env, cwd, disk, pkg, locals, launcherFiles,
                   lambdas, warned, result>>

\* launcherFiles with the compiled TypeScript files spread last
LauncherFilesTypescriptLast(serverDistFiles, compiledTypescriptFiles, nodeModules) ==
    Spread(Spread(Spread(
        [k \in {"vercel__launcher.js", "vercel__bridge.js", "nuxt.config.js"} |->
            CASE k = "vercel__launcher.js" -> "launcher"
              [] k = "vercel__bridge.js" -> "bridge"
              [] OTHER -> "config"],
        serverDistFiles), nodeModules), compiledTypescriptFiles)

\* lines 284-291: const launcherFiles = { launcher, bridge, config, ...server, ...ts, ...modules }
LauncherFiles(serverDistFiles, compiledTypescriptFiles, nodeModules) ==
    Spread(Spread(Spread(
        [k \in {"vercel__launcher.js", "vercel__bridge.js", "nuxt.config.js"} |->
            CASE k = "vercel__launcher.js" -> "launcher"
              [] k = "vercel__bridge.js" -> "bridge"
              [] OTHER -> "config"],
        serverDistFiles), compiledTypescriptFiles), nodeModules)

\* ServerFiles without the trailing 'package.json'
ServerFilesWithoutManifest(config) ==
    (IF config.includeFiles.kind = "array" THEN config.includeFiles.items
     ELSE IF config.includeFiles.kind = "string" THEN <<config.includeFiles.value>>
     ELSE <<>>)
    \o (IF config.serverFiles.kind = "array" THEN config.serverFiles.items ELSE <<>>)

\* lines 296-300: the patterns of includeFiles and serverFiles, then package.json
ServerFiles(config) ==
    (IF config.includeFiles.kind = "array" THEN config.includeFiles.items
     ELSE IF config.includeFiles.kind = "string" THEN <<config.includeFiles.value>>
     ELSE <<>>)
    \o (IF config.serverFiles.kind = "array" THEN config.serverFiles.items ELSE <<>>)
    \o <<"package.json">>

\* lines 302-305: Object.assign(launcherFiles, await glob(pattern, entrypointPath))
RECURSIVE AssignGlobs(_, _)
AssignGlobs(acc, patterns) ==
    IF patterns = <<>> THEN acc
    ELSE AssignGlobs(Spread(acc, FilesOf(WorkspaceGlob(Head(patterns)), "extra")),
                     Tail(patterns))

\* lines 276-305: the launcher source, launcherFiles and the extra files
AssembleLauncherFiles ==
    /\ pc = "launcher"
    /\ \/ /\ launcherFiles' =
                AssignGlobs(LauncherFiles(files.serverDistFiles,
                                          locals.compiledTypescriptFiles,
                                          files.nodeModules),
                            ServerFiles(opts.config))
          /\ pc' = "createLambda"
          /\ UNCHANGED error
       \/ /\ Throw("glob")
          /\ UNCHANGED launcherFiles
    /\ UNCHANGED <<opts, env, cwd, disk, log, pkg, locals, files,
                   lambdas, warned, result>>

CacheControl == "max-age=31557600"

\* a route: a match pattern with headers or a destination, or a handle directive
Route(src, headers, handle, dest) ==
    [src |-> src, headers |-> headers, handle |-> handle, dest |-> dest]

\* Routes with the catch-all placed before the filesystem directive
RoutesCatchAllFirst(publicPath, staticFiles) ==
    << Route("/" \o publicPath \o ".+", CacheControl, NoValue, NoValue) >>
    \o [i \in 1..Len(staticFiles) |->
          Route("/" \o staticFiles[i], CacheControl, NoValue, NoValue)]
    \o << Route("/(.*)", NoValue, NoValue, "/index"),
          Route(NoValue, NoValue, "filesystem", NoValue) >>

\* Routes with the static files matched by their bare path, without the leading slash
RoutesBarePaths(publicPath, staticFiles) ==
    << Route("/" \o publicPath \o ".+", CacheControl, NoValue, NoValue) >>
    \o [i \in 1..Len(staticFiles) |->
          Route(staticFiles[i], CacheControl, NoValue, NoValue)]
    \o << Route(NoValue, NoValue, "filesystem", NoValue),
          Route("/(.*)", NoValue, NoValue, "/index") >>

\* lines 331-336: routes
Routes(publicPath, staticFiles) ==
    << Route("/" \o publicPath \o ".+", CacheControl, NoValue, NoValue) >>
    \o [i \in 1..Len(staticFiles) |->
          Route("/" \o staticFiles[i], CacheControl, NoValue, NoValue)]
    \o << Route(NoValue, NoValue, "filesystem", NoValue),
          Route("/(.*)", NoValue, NoValue, "/index") >>

\* lines 325-330: output
Output(lambdaFiles, clientDistFiles, staticFiles, generatedPagesFiles) ==
    Spread(Spread(Spread(lambdaFiles, clientDistFiles),
                  FilesOf(Range(staticFiles), "static")),
           generatedPagesFiles)

\* lines 308-337: lambdas[lambdaName] = await createLambda(...); return
CreateLambda ==
    /\ pc = "createLambda"
    /\ \/ /\ lambdas' = FilesOf({locals.lambdaName}, "lambda")
          /\ result' = [ returned |-> TRUE,
                         output |-> Output(lambdas', files.clientDistFiles,
                                           files.staticFiles, files.generatedPagesFiles),
                         routes |-> Routes(locals.publicPath, files.staticFiles) ]
          /\ pc' = "done"
          /\ UNCHANGED error
       \/ /\ Throw("createLambda")
          /\ UNCHANGED <<lambdas, result>>
    /\ UNCHANGED <<opts, env, cwd, disk, log, pkg, locals, files,
                   launcherFiles, warned>>

----------------------------------------------------------------------------

Next ==
    \/ Prepare
    \/ Download
    \/ ChdirRoot
    \/ CopyBuildFiles
    \/ ChdirEntry
    \/ ReadPackageJson
    \/ DetectEnvironment
    \/ PrepareTypescript
    \/ WriteNpmrc
    \/ PrepareCache
    \/ StartInstallDev
    \/ InstallDevDependencies
    \/ PreBuild
    \/ StartNuxtBuild
    \/ ReadNuxtConfig
    \/ NuxtBuild
    \/ NuxtGenerate
    \/ StartInstallProd
    \/ PreparePkg
    \/ InstallDependencies
    \/ ValidateNuxtVersion
    \/ CleanupNpmrc
    \/ CollectArtifacts
    \/ AssembleLauncherFiles
    \/ CreateLambda

Spec == Init /\ [][Next]_vars

----------------------------------------------------------------------------
(* Reading the log *)

IsStep(e) == e.ev = "step"
IsCmd(e, name, mode) == e.ev = "cmd" /\ e.name = name /\ e.mode = mode

\* positions of the log
Pos == DOMAIN log
StepPos == { i \in Pos : IsStep(log[i]) }
CmdPos == { i \in Pos : log[i].ev = "cmd" }

\* the names of the steps started so far, in order
Steps == LET s == SelectSeq(log, IsStep) IN [i \in DOMAIN s |-> s[i].name]

StepIndex(name) == CHOOSE i \in DOMAIN StepNames : StepNames[i] = name

Started(name) == \E i \in StepPos : log[i].name = name

\* a command of that name and mode succeeded before position p
DoneBefore(name, mode, p) ==
    \E i \in CmdPos : i < p /\ IsCmd(log[i], name, mode) /\ log[i].ok

\* the stage a command belongs to
StageOf(e) ==
    CASE IsCmd(e, "yarn install", "--production=false") -> "Install devDependencies"
      [] IsCmd(e, "now-build", "") -> "Pre build"
      [] IsCmd(e, "yarn install", "--production=true") -> "Install dependencies"
      [] OTHER -> "Nuxt build"

\* the stage that is active at position p: the last one started before it
RECURSIVE ActiveStage(_)
ActiveStage(p) ==
    IF p = 1 THEN NoValue
    ELSE IF IsStep(log[p - 1]) THEN log[p - 1].name
    ELSE ActiveStage(p - 1)

----------------------------------------------------------------------------
(* C1: the stages start in the fixed order prepare, install-dev, pre-build  *)
(* (only when it runs), framework-build, install-prod, collect-artifacts;   *)
(* none starts twice, none starts before the work of the stage before it    *)
(* has succeeded, and every command runs while its own stage is the one     *)
(* started last.                                                            *)
C1_StagesSequential ==
    /\ LET steps == Steps
       IN \A i \in DOMAIN steps :
            /\ i = 1 => steps[i] = "Prepare build"
            /\ i > 1 =>
                 \/ StepIndex(steps[i]) = StepIndex(steps[i - 1]) + 1
                 \/ /\ steps[i - 1] = "Install devDependencies"
                    /\ steps[i] = "Nuxt build"
                    /\ "now-build" \notin pkg.scripts
    /\ \A p \in StepPos :
         /\ \A q \in Pos : q < p => log[q].ok
         /\ log[p].name = "Install devDependencies" => pkg.state = "ok"
         /\ log[p].name \in {"Pre build", "Nuxt build"} =>
              DoneBefore("yarn install", "--production=false", p)
         /\ log[p].name = "Nuxt build" /\ "now-build" \in pkg.scripts =>
              DoneBefore("now-build", "", p)
         /\ log[p].name = "Install dependencies" =>
              DoneBefore("nuxt build", "--standalone", p)
         /\ log[p].name = "Collect artifacts" =>
              /\ DoneBefore("yarn install", "--production=true", p)
              /\ VersionSupported(locals.nuxtVersion)
    /\ \A p \in CmdPos : ActiveStage(p) = StageOf(log[p])

\* a run that went through all six stages and returned
C1_Witness ==
    /\ pc = "done"
    /\ Steps = StepNames

----------------------------------------------------------------------------
(* C2: a failure at any step aborts the run there: the failed command is    *)
(* the last thing logged (nothing later is invoked, nothing is retried),    *)
(* no function package is built and build() returns no BuildResult.         *)
C2_FailureAborts ==
    /\ (pc = "failed") <=> (error # NoError)
    /\ pc = "failed" => result = NoResult /\ lambdas = EmptyFiles
    /\ result.returned => pc = "done"
    /\ \A p \in Pos : ~log[p].ok => p = Len(log) /\ pc = "failed"
    /\ \A p, q \in CmdPos :
         log[p].name = log[q].name /\ log[p].mode = log[q].mode => p = q
    /\ error \in {"InvalidEntrypoint", "download", "copyBuildFiles", "ManifestNotFound",
                  "getNodeVersion", "prepareTypescriptEnvironment", "writeFile .npmrc",
                  "mkdirp"} => Len(log) = 1
    /\ error \in {"runNpmInstall", "runPackageJsonScript", "compileTypescriptBuildFiles",
                  "nuxt build", "nuxt generate"} => ~log[Len(log)].ok
    /\ error \in {"UnsupportedFrameworkVersion", "FrameworkNotResolvable",
                  "unlink .npmrc"} =>
         IsCmd(log[Len(log)], "yarn install", "--production=true")
    /\ error \in {"glob", "createLambda"} =>
         log[Len(log)] = StepEv("Collect artifacts")

\* the framework build failed after a successful dev install
C2_Witness ==
    /\ pc = "failed"
    /\ error = "nuxt build"
    /\ DoneBefore("yarn install", "--production=false", Len(log))

----------------------------------------------------------------------------
(* C3: the manifest on disk is the downloaded one until the dev install has *)
(* succeeded and the production install stage has started; the dev install  *)
(* sees the original manifest, the production install the pruned one.       *)
C3_PruneBetweenInstalls ==
    /\ \A p \in CmdPos :
         /\ IsCmd(log[p], "yarn install", "--production=false") =>
              log[p].pkg = opts.manifest
         /\ IsCmd(log[p], "yarn install", "--production=true") =>
              /\ log[p].pkg = PreparePkgForProd(opts.manifest)
              /\ log[p].pkg # opts.manifest
              /\ DoneBefore("yarn install", "--production=false", p)
    /\ \A d \in Dirs :
         disk[d].pkg \notin {NoFile, opts.manifest} =>
           /\ d = entrypointPath
           /\ disk[d].pkg = PreparePkgForProd(opts.manifest)
           /\ Started("Install dependencies")
           /\ DoneBefore("yarn install", "--production=false", Len(log) + 1)

\* the production install has run on the pruned manifest
C3_Witness ==
    /\ \E p \in CmdPos : IsCmd(log[p], "yarn install", "--production=true") /\ log[p].ok
    /\ disk[entrypointPath].pkg = PreparePkgForProd(opts.manifest)

----------------------------------------------------------------------------
(* Reading the routes *)

IsFilesystem(r) == r.handle = "filesystem"
IsCatchAll(r) == r.src = "/(.*)" /\ r.dest # NoValue
IsCacheRule(r) == r.headers = CacheControl

\* the keys of the output that hold a function package
FunctionPackages(output) == { k \in DOMAIN output : output[k] = "lambda" }

(* C4: the returned routes hold exactly one filesystem directive and        *)
(* exactly one catch-all rule; the catch-all is last, the filesystem        *)
(* directive is before it, and every cache-header rule is before the        *)
(* filesystem directive.                                                    *)
C4_RouteOrder ==
    result.returned =>
      LET r == result.routes
          fs == { i \in DOMAIN r : IsFilesystem(r[i]) }
          ca == { i \in DOMAIN r : IsCatchAll(r[i]) }
      IN /\ Cardinality(fs) = 1
         /\ ca = {Len(r)}
         /\ \A i \in fs : i < Len(r)
         /\ \A i \in DOMAIN r, j \in fs : IsCacheRule(r[i]) => i < j
         /\ \E i \in DOMAIN r : IsCacheRule(r[i])

\* routes returned for a project with two static files
C4_Witness ==
    /\ result.returned
    /\ Len(files.staticFiles) = 2
    /\ Len(result.routes) = 5

----------------------------------------------------------------------------
(* C5: exactly one function package is built, keyed by the configured       *)
(* lambda name (index when none is configured), the output holds no         *)
(* function package under another key, and the catch-all route's            *)
(* destination is "/" followed by that name.                                *)
C5_LambdaNameRouted ==
    result.returned =>
      /\ DOMAIN lambdas = {locals.lambdaName}
      /\ FunctionPackages(result.output) \subseteq {locals.lambdaName}
      /\ \A i \in DOMAIN result.routes :
           IsCatchAll(result.routes[i]) =>
             result.routes[i].dest = "/" \o locals.lambdaName

----------------------------------------------------------------------------
(* C6: with NPM_AUTH_TOKEN set, .npmrc exists when the dev install stage    *)
(* starts and during both installs, and is in no directory once the         *)
(* production install stage has completed.                                  *)
C6_NpmrcLifetime ==
    env.NPM_AUTH_TOKEN =>
      /\ \A p \in Pos :
           /\ IsStep(log[p]) /\ log[p].name = "Install devDependencies" => log[p].npmrc
           /\ log[p].ev = "cmd" /\ log[p].name = "yarn install" => log[p].npmrc
      /\ pc \in {"collect", "launcher", "createLambda", "done"}
           \/ Started("Collect artifacts") =>
             \A d \in Dirs : ~disk[d].npmrc

\* the token is set and the run is past the production install stage
C6_Witness ==
    /\ env.NPM_AUTH_TOKEN
    /\ pc = "done"
    /\ \E p \in Pos : IsCmd(log[p], "yarn install", "--production=true") /\ log[p].npmrc

----------------------------------------------------------------------------
(* C7: a resolved framework version below 2.4.0 makes build fail with the   *)
(* unsupported-version error before anything is collected or packaged;      *)
(* 2.4.0 itself is accepted.                                                *)
C7_MinimumVersion ==
    LET v == locals.nuxtVersion
    IN /\ v # <<0, 0, 0>> /\ (v[1] < 2 \/ (v[1] = 2 /\ v[2] < 4)) =>
            /\ pc = "failed"
            /\ error = "UnsupportedFrameworkVersion"
            /\ ~Started("Collect artifacts")
            /\ files = InitFiles
            /\ lambdas = EmptyFiles
            /\ result = NoResult
       /\ v = <<2, 4, 0>> => error # "UnsupportedFrameworkVersion" /\ pc # "validate"
       /\ error = "UnsupportedFrameworkVersion" => v[1] < 2 \/ (v[1] = 2 /\ v[2] < 4)

\* version 2.3.0 was resolved and rejected
C7_Witness ==
    /\ locals.nuxtVersion = <<2, 3, 0>>
    /\ error = "UnsupportedFrameworkVersion"

----------------------------------------------------------------------------
(* C8: the key sets merged into the output (the function package name, the  *)
(* client distribution files, the static files, the generated pages) are    *)
(* pairwise disjoint, so no entry of one class replaces one of another.     *)
C8_DisjointKeySets ==
    result.returned =>
      LET L == DOMAIN lambdas
          C == DOMAIN files.clientDistFiles
          S == Range(files.staticFiles)
          G == DOMAIN files.generatedPagesFiles
      IN /\ L \cap C = {} /\ L \cap S = {} /\ L \cap G = {}
         /\ C \cap S = {} /\ C \cap G = {} /\ S \cap G = {}
         /\ \A k \in L : result.output[k] = "lambda"

----------------------------------------------------------------------------
(* C9: for the static files S found, the routes are |S| + 3 rules: the      *)
(* cache rule of the public-asset prefix, one cache rule per file matching  *)
(* "/" and the file's path, the filesystem directive, the catch-all; with   *)
(* generateStaticRoutes false and favicon.ico the only static file there is *)
(* a cache rule for /favicon.ico and one function package.                  *)
C9_RoutesPerStaticFile ==
    result.returned =>
      LET r == result.routes
          S == files.staticFiles
      IN /\ Len(r) = Cardinality(Range(S)) + 3
         /\ IsCacheRule(r[1]) /\ r[1].src = "/" \o locals.publicPath \o ".+"
         /\ \A f \in Range(S) :
              Cardinality({ i \in 2..(Len(r) - 2) :
                              r[i].src = "/" \o f /\ IsCacheRule(r[i]) }) = 1
         /\ \A i \in 2..(Len(r) - 2) :
              IsCacheRule(r[i]) /\ \E f \in Range(S) : r[i].src = "/" \o f
         /\ IsFilesystem(r[Len(r) - 1])
         /\ IsCatchAll(r[Len(r)])
         /\ ~opts.config.generateStaticRoutes /\ S = <<"favicon.ico">> =>
              /\ \E i \in DOMAIN r : r[i].src = "/favicon.ico" /\ IsCacheRule(r[i])
              /\ Cardinality(FunctionPackages(result.output)) = 1
              /\ files.generatedPagesFiles = EmptyFiles

\* scenario A: no static generation, favicon.ico the only static file
C9_Witness ==
    /\ result.returned
    /\ ~opts.config.generateStaticRoutes
    /\ files.staticFiles = <<"favicon.ico">>

----------------------------------------------------------------------------
(* C10: nuxt generate runs only when config.generateStaticRoutes is set, in *)
(* --no-build mode, after a successful nuxt build and before the production *)
(* install stage; a run that reaches that stage has run it exactly when the *)
(* option is set; generated pages are in the output exactly when it is set. *)
C10_GenerateIffConfigured ==
    /\ \A p \in CmdPos :
         log[p].name = "nuxt generate" =>
           /\ opts.config.generateStaticRoutes
           /\ log[p].mode = "--no-build"
           /\ DoneBefore("nuxt build", "--standalone", p)
           /\ \A q \in StepPos : log[q].name = "Install dependencies" => p < q
    /\ \A q \in StepPos :
         log[q].name = "Install dependencies" =>
           (opts.config.generateStaticRoutes <=> DoneBefore("nuxt generate", "--no-build", q))
    /\ pc \in {"launcher", "createLambda", "done"} =>
         (opts.config.generateStaticRoutes <=> files.generatedPagesFiles # EmptyFiles)
    /\ result.returned =>
         /\ \A k \in DOMAIN files.generatedPagesFiles : result.output[k] = "generated"
         /\ opts.config.generateStaticRoutes <=>
              \E k \in DOMAIN result.output : result.output[k] = "generated"

\* static generation ran and its pages were returned
C10_Witness ==
    /\ result.returned
    /\ \E p \in CmdPos : log[p].name = "nuxt generate" /\ log[p].ok
    /\ "index.html" \in DOMAIN result.output

----------------------------------------------------------------------------
(* C11: the TypeScript precompilation runs exactly when the configuration   *)
(* file is nuxt.config.ts, after the dev install and before nuxt build;     *)
(* its files are in the function package, and without it the package holds *)
(* no TypeScript-compiled file.                                             *)
C11_TypescriptPrecompile ==
    /\ \A p \in CmdPos :
         log[p].name = "tsc" =>
           /\ locals.nuxtConfigName = "nuxt.config.ts"
           /\ DoneBefore("yarn install", "--production=false", p)
           /\ \A q \in CmdPos : log[q].name = "nuxt build" => p < q /\ log[p].ok
    /\ \A q \in CmdPos :
         log[q].name = "nuxt build" =>
           (locals.nuxtConfigName = "nuxt.config.ts" <=> DoneBefore("tsc", "", q))
    /\ pc \in {"createLambda", "done"} =>
         IF locals.nuxtConfigName = "nuxt.config.ts"
           THEN /\ \A k \in DOMAIN locals.compiledTypescriptFiles :
                     /\ k \in DOMAIN launcherFiles
                     /\ launcherFiles[k] \in {"typescript", "node_modules", "extra"}
                /\ \E k \in DOMAIN launcherFiles : launcherFiles[k] = "typescript"
           ELSE /\ locals.compiledTypescriptFiles = EmptyFiles
                /\ \A k \in DOMAIN launcherFiles : launcherFiles[k] # "typescript"

\* a nuxt.config.ts project was compiled and packaged
C11_Witness ==
    /\ pc = "done"
    /\ locals.nuxtConfigName = "nuxt.config.ts"
    /\ "modules/module.js" \in DOMAIN launcherFiles
    /\ launcherFiles["modules/module.js"] = "typescript"

----------------------------------------------------------------------------
(* C12: the pre-build stage runs exactly when the manifest read at the      *)
(* start declares the now-build script; it starts after the dev install     *)
(* and its script has succeeded before the TypeScript precompilation and    *)
(* nuxt build; without the script the Nuxt build stage follows the dev      *)
(* install directly.                                                        *)
C12_PreBuildIffDeclared ==
    /\ \A p \in StepPos :
         log[p].name = "Pre build" =>
           /\ "now-build" \in opts.manifest.scripts
           /\ DoneBefore("yarn install", "--production=false", p)
           /\ p < Len(log) /\ IsCmd(log[p + 1], "now-build", "")
    /\ \A p \in CmdPos :
         /\ log[p].name = "now-build" =>
              p > 1 /\ IsStep(log[p - 1]) /\ log[p - 1].name = "Pre build"
         /\ log[p].name \in {"tsc", "nuxt build"} =>
              ("now-build" \in opts.manifest.scripts <=> DoneBefore("now-build", "", p))
    /\ \A q \in StepPos :
         log[q].name = "Nuxt build" =>
           /\ "now-build" \in opts.manifest.scripts <=> DoneBefore("now-build", "", q)
           /\ "now-build" \notin opts.manifest.scripts =>
                IsCmd(log[q - 1], "yarn install", "--production=false")

\* the declared script ran and the framework build followed it
C12_Witness ==
    /\ "now-build" \in opts.manifest.scripts
    /\ \E p \in CmdPos : log[p].name = "now-build" /\ log[p].ok
    /\ \E p \in CmdPos : log[p].name = "nuxt build"

----------------------------------------------------------------------------
(* C13: a run that returns has invoked the installer exactly twice: the dev *)
(* pass (--production=false, NODE_ENV development) and then the production  *)
(* pass (--production=true), both into <entry path>/node_modules with the   *)
(* cache under <entry path>/.vercel_cache; nuxt build runs between the two  *)
(* and no installer runs after the production pass.                         *)
C13_TwoInstallPasses ==
    result.returned =>
      LET installs == { p \in CmdPos : log[p].name = "yarn install" }
          entry == IF opts.entrypoint = "apps/app/nuxt.config.js"
                     THEN "/work/apps/app" ELSE "/work"
      IN /\ Cardinality(installs) = 2
         /\ \E d, q \in installs :
              /\ d < q
              /\ log[d].mode = "--production=false"
              /\ log[d].spawnEnv = "NODE_ENV=development"
              /\ log[q].mode = "--production=true"
              /\ \E b \in CmdPos : d < b /\ b < q /\ IsCmd(log[b], "nuxt build", "--standalone")
              /\ \A p \in CmdPos : p > q => log[p].name # "yarn install"
         /\ \A p \in installs :
              /\ log[p].ok
              /\ log[p].dir = entry
              /\ log[p].modules = entry \o "/node_modules"
              /\ log[p].cache = entry \o "/.vercel_cache/yarn"

\* a returned run for a project in a subdirectory of the work path
C13_Witness ==
    /\ result.returned
    /\ opts.entrypoint = "apps/app/nuxt.config.js"
    /\ Cardinality({ p \in CmdPos : log[p].name = "yarn install" }) = 2

----------------------------------------------------------------------------
(* C14: when package.json is absent from the entry directory or is not      *)
(* JSON, build fails with the manifest-not-found error before the dev       *)
(* install stage: no installer or compiler command is run, .npmrc is not    *)
(* created and package.json is not written.                                 *)
C14_ManifestNotFound ==
    /\ opts.manifest.state # "ok" =>
         /\ pc \in {"start", "download", "chdirRoot", "copyBuildFiles", "chdirEntry",
                    "readPkg", "failed"}
         /\ pc = "failed" =>
              error \in {"InvalidEntrypoint", "download", "copyBuildFiles", "ManifestNotFound"}
         /\ CmdPos = {}
         /\ ~Started("Install devDependencies")
         /\ \A d \in Dirs : ~disk[d].npmrc /\ disk[d].pkg \in {NoFile, opts.manifest}
         /\ pkg = NoFile
    /\ error = "ManifestNotFound" =>
         /\ opts.manifest.state \in {"absent", "unparsable"}
         /\ Len(log) = 1

\* the downloaded package.json was not JSON and the read failed
C14_Witness ==
    /\ error = "ManifestNotFound"
    /\ opts.manifest = Unparsable
    /\ disk[entrypointPath].pkg = Unparsable

----------------------------------------------------------------------------
(* C15: the function package always holds package.json, and every file      *)
(* matched by a pattern of config.includeFiles or config.serverFiles under  *)
(* the file's own path; a pattern that matches nothing adds nothing and  *)
(* the run still returns.                                                   *)
ConfiguredPatterns ==
    (CASE opts.config.includeFiles.kind = "array" -> Range(opts.config.includeFiles.items)
       [] opts.config.includeFiles.kind = "string" -> {opts.config.includeFiles.value}
       [] OTHER -> {})
    \cup (IF opts.config.serverFiles.kind = "array"
            THEN Range(opts.config.serverFiles.items) ELSE {})

C15_ExtraFilesPackaged ==
    pc \in {"createLambda", "done"} =>
      /\ "package.json" \in DOMAIN launcherFiles
      /\ launcherFiles["package.json"] = "extra"
      /\ \A pattern \in ConfiguredPatterns :
           \A f \in WorkspaceGlob(pattern) :
             f \in DOMAIN launcherFiles /\ launcherFiles[f] = "extra"
      /\ \A k \in DOMAIN launcherFiles :
           launcherFiles[k] = "extra" =>
             k = "package.json" \/ \E pattern \in ConfiguredPatterns : k \in WorkspaceGlob(pattern)
      /\ "missing.txt" \notin DOMAIN launcherFiles

\* scenario C, with a second pattern that matches no file: the run returned
C15_Witness ==
    /\ pc = "done"
    /\ result.returned
    /\ opts.config.includeFiles = Arr(<<"secrets.json", "missing.txt">>)
    /\ launcherFiles["secrets.json"] = "extra"

----------------------------------------------------------------------------
(* C16: a resolved framework version above 3.0.0 is not an error: the run   *)
(* logs the compatibility warning and goes on to the cleanup and collect    *)
(* steps and can return a BuildResult; the warning is logged for no other   *)
(* condition, and every other abnormal condition aborts the run.            *)
AboveCeiling(v) ==
    \/ v[1] > 3
    \/ v[1] = 3 /\ (v[2] > 0 \/ (v[2] = 0 /\ v[3] > 0))

VersionResolved == locals.nuxtVersion # <<0, 0, 0>>

C16_WarningNotFatal ==
    /\ warned <=> (VersionResolved /\ AboveCeiling(locals.nuxtVersion))
    /\ warned =>
         /\ error \notin {"UnsupportedFrameworkVersion", "FrameworkNotResolvable"}
         /\ pc \in {"cleanup", "collect", "launcher", "createLambda", "done", "failed"}
         /\ pc = "failed" => error \in {"unlink .npmrc", "glob", "createLambda"}
    /\ (pc = "failed") <=> (error # NoError)
    /\ result.returned => pc = "done" /\ error = NoError

\* a run on a version above the ceiling that returned its BuildResult
C16_Witness ==
    /\ warned
    /\ pc = "done"
    /\ result.returned
    /\ AboveCeiling(locals.nuxtVersion)

----------------------------------------------------------------------------
(* C17: entrypoint validation is the first effectful step: with a malformed *)
(* entrypoint (empty or absolute) the run fails with the invalid-entrypoint *)
(* error before the download, before any change of the working directory    *)
(* and before any file of the workspace is created or modified.             *)
Malformed(e) == e = "" \/ e = "/nuxt.config.js"

WorkspaceUntouched ==
    /\ cwd = InitialDir
    /\ \A d \in DOMAIN disk : disk[d] = [pkg |-> NoFile, npmrc |-> FALSE]
    /\ pkg = NoFile
    /\ files = InitFiles
    /\ launcherFiles = EmptyFiles
    /\ lambdas = EmptyFiles

C17_EntrypointValidatedFirst ==
    /\ Malformed(opts.entrypoint) =>
         /\ pc \in {"start", "failed"}
         /\ pc = "failed" => error = "InvalidEntrypoint"
         /\ WorkspaceUntouched
         /\ CmdPos = {}
         /\ \A i \in 1..Len(log) : IsStep(log[i]) /\ log[i].name = "Prepare build"
    /\ error = "InvalidEntrypoint" =>
         /\ Malformed(opts.entrypoint)
         /\ Len(log) = 1
         /\ WorkspaceUntouched

\* an absolute entrypoint rejected although its manifest is readable
C17_Witness ==
    /\ error = "InvalidEntrypoint"
    /\ pc = "failed"
    /\ opts.entrypoint = "/nuxt.config.js"
    /\ opts.manifest.state = "ok"

----------------------------------------------------------------------------
(* C18: .npmrc is removed only after the production install and the        *)
(* version validation have both succeeded: a run that aborts after the     *)
(* file was written and before the cleanup step (cache preparation, dev    *)
(* install, pre-build, TypeScript compile, configuration load, framework   *)
(* build, static generation, manifest write, production install,           *)
(* framework resolution, version check) leaves the file in the workspace.  *)
AbortsHoldingToken ==
    {"mkdirp", "prepareNodeModules", "runNpmInstall", "runPackageJsonScript",
     "compileTypescriptBuildFiles", "getNuxtConfig", "nuxt build", "nuxt generate",
     "writeJSON package.json", "FrameworkNotResolvable", "UnsupportedFrameworkVersion",
     "unlink .npmrc"}

NpmrcWasWritten == \E p \in Pos : log[p].npmrc

C18_NpmrcSurvivesAbort ==
    env.NPM_AUTH_TOKEN =>
      /\ pc = "failed" /\ error \in AbortsHoldingToken => disk[entrypointPath].npmrc
      /\ NpmrcWasWritten /\ (\A d \in Dirs : ~disk[d].npmrc) =>
           /\ DoneBefore("yarn install", "--production=true", Len(log) + 1)
           /\ LET v == locals.nuxtVersion
              IN v[1] > 2 \/ (v[1] = 2 /\ v[2] >= 4)
           /\ error \notin AbortsHoldingToken
           /\ pc \in {"collect", "launcher", "createLambda", "done", "failed"}

\* the version check aborted the run after both installs: the token file is left
C18_Witness ==
    /\ env.NPM_AUTH_TOKEN
    /\ pc = "failed"
    /\ error = "UnsupportedFrameworkVersion"
    /\ disk[entrypointPath].npmrc
    /\ DoneBefore("yarn install", "--production=true", Len(log) + 1)

----------------------------------------------------------------------------
(* C19: in the function package a file matched by an includeFiles or        *)
(* serverFiles pattern, or the manifest, replaces an entry of the same path; *)
(* among the other entries node_modules files override TypeScript-compiled   *)
(* files, which override server distribution files, which override the      *)
(* launcher, the bridge and the configuration file.                         *)
ExtraKeys ==
    {"package.json"} \cup UNION { WorkspaceGlob(pattern) : pattern \in ConfiguredPatterns }

BaseKeys == {"vercel__launcher.js", "vercel__bridge.js", "nuxt.config.js"}

ExpectedClass(k) ==
    IF k \in ExtraKeys THEN "extra"
    ELSE IF k \in DOMAIN files.nodeModules THEN "node_modules"
    ELSE IF k \in DOMAIN locals.compiledTypescriptFiles THEN "typescript"
    ELSE IF k \in DOMAIN files.serverDistFiles THEN "server"
    ELSE IF k = "vercel__launcher.js" THEN "launcher"
    ELSE IF k = "vercel__bridge.js" THEN "bridge"
    ELSE "config"

C19_OverrideOrder ==
    pc \in {"createLambda", "done"} =>
      /\ DOMAIN launcherFiles =
           BaseKeys \cup DOMAIN files.serverDistFiles
             \cup DOMAIN locals.compiledTypescriptFiles
             \cup DOMAIN files.nodeModules \cup ExtraKeys
      /\ \A k \in DOMAIN launcherFiles : launcherFiles[k] = ExpectedClass(k)
      /\ \A k \in DOMAIN files.nodeModules : files.nodeModules[k] = "node_modules"
      /\ \A k \in DOMAIN files.serverDistFiles : files.serverDistFiles[k] = "server"
      /\ \A k \in DOMAIN locals.compiledTypescriptFiles :
           locals.compiledTypescriptFiles[k] = "typescript"

\* one run with a collision at each level: an extra file over the compiled
\* configuration file, a compiled file over a server distribution file, a
\* node_modules file over a compiled file
C19_Witness ==
    /\ pc = "done"
    /\ {"nuxt.config.js", ".nuxt/dist/server/server.js",
        "node_modules/@nuxt/core/package.json"}
         \subseteq DOMAIN locals.compiledTypescriptFiles
    /\ ".nuxt/dist/server/server.js" \in DOMAIN files.serverDistFiles
    /\ "node_modules/@nuxt/core/package.json" \in DOMAIN files.nodeModules
    /\ opts.config.includeFiles = Str("nuxt.config.js")
    /\ launcherFiles["nuxt.config.js"] = "extra"
    /\ launcherFiles[".nuxt/dist/server/server.js"] = "typescript"
    /\ launcherFiles["node_modules/@nuxt/core/package.json"] = "node_modules"

----------------------------------------------------------------------------
(* C20: after the download the working directory becomes the work path root *)
(* and then the entry path, and is never changed again nor restored: it is  *)
(* the entry path in every later state, returned or failed. The manifest,   *)
(* read by a relative path, is the file later overwritten, and .npmrc is    *)
(* written and removed in the same directory: no other directory is touched. *)
BeforeRootPcs == {"start", "download", "chdirRoot"}
AtRootPcs == {"copyBuildFiles", "chdirEntry"}
ManifestWrittenPcs ==
    {"prodInstall", "validate", "cleanup", "collect", "launcher", "createLambda", "done"}

C20_WorkingDirectory ==
    /\ pc \in BeforeRootPcs => cwd = InitialDir
    /\ pc \in AtRootPcs => cwd = WorkPath
    /\ pc \notin BeforeRootPcs \cup AtRootPcs \cup {"failed"} =>
         cwd = entrypointPath /\ cwd # InitialDir
    /\ pc = "failed" =>
         cwd = (CASE error \in {"InvalidEntrypoint", "download"} -> InitialDir
                  [] error = "copyBuildFiles" -> WorkPath
                  [] OTHER -> entrypointPath)
    /\ \A d \in Dirs \ {entrypointPath} : disk[d] = [pkg |-> NoFile, npmrc |-> FALSE]
    /\ pkg # NoFile =>
         /\ cwd = entrypointPath
         /\ pkg \in {opts.manifest, PreparePkgForProd(opts.manifest)}
         /\ disk[cwd].pkg \in {opts.manifest, pkg}
    /\ pc \in ManifestWrittenPcs =>
         /\ disk[entrypointPath].pkg = pkg
         /\ pkg.dependencies = opts.manifest.dependencies \cap {"nuxt", "nuxt-edge"}

\* a run in a sub-directory returned: the directory is still the entry path and
\* the manifest there is the pruned one
C20_Witness ==
    /\ pc = "done"
    /\ result.returned
    /\ opts.entrypoint = "apps/app/nuxt.config.js"
    /\ cwd = "/work/apps/app"
    /\ env.NPM_AUTH_TOKEN
    /\ disk[cwd].pkg # opts.manifest
    /\ disk[WorkPath].pkg = NoFile

====
